---- MODULE Spec2Model ----
(***************************************************************************)
(* Model of the Gemini proxy (src/index.js): one Express route             *)
(*   POST /v1beta/models/:modelId/:apiEndpoint                             *)
(* that forwards the request to the upstream with node-fetch and relays    *)
(* the upstream response to the client.                                    *)
(*                                                                         *)
(* Texts are sequences of symbols: a literal fragment of the source is one *)
(* symbol, a caller- or operator-supplied string is a sequence of          *)
(* one-character symbols.  Bodies that travel as Buffers are sequences of  *)
(* bytes (0..255); decoded text is a sequence of code points.              *)
(***************************************************************************)
EXTENDS Integers, Sequences, FiniteSets, TLC

\* ---------------------------------------------------------------- bounds
NumReqs == 2
MaxChunks == 2

Reqs == 1..NumReqs

\* ------------------------------------------------------- configuration
\* JavaScript's undefined as an environment value (a reserved symbol)
Undefined == <<"undefined">>
\* an absent header
None == "none"
\* an absent object
Absent == [absent |-> TRUE]

\* process.env.GEMINI_API_KEY: unset, empty, or a secret
ApiKeys == { Undefined, <<>>, <<"s", "k", "7">> }

\* req.params and req.body of the inbound requests
Inputs ==
    { [modelId |-> <<"g", "2">>, apiEndpoint |-> <<"s", "G">>, body |-> <<>>],
      [modelId |-> <<"g", "2">>, apiEndpoint |-> <<"s", "G">>,
       body |-> << <<"a", "1">> >>],
      [modelId |-> <<"p">>, apiEndpoint |-> <<"g", "C">>,
       body |-> << <<"a", "1">> >>] }

\* status line and headers of the upstream response
Responses ==
    { [status |-> 200, ctype |-> "application/json", te |-> None],
      [status |-> 201, ctype |-> None, te |-> "chunked"],
      [status |-> 429, ctype |-> "text/plain", te |-> None],
      [status |-> 404, ctype |-> None, te |-> "chunked"] }

\* err.message of the low-level failure under a fetch rejection
Reasons == { <<"ECONNREFUSED">> }

\* ------------------------------------------------------ pure functions

\* JSON.stringify of a parsed body (a flat object, a sequence of key/value pairs)
RECURSIVE StringifyPairs(_)
StringifyPairs(ps) ==
    IF ps = <<>> THEN <<>>
    ELSE LET p == ps[1]
             rest == StringifyPairs(Tail(ps))
         IN  <<"\"", p[1], "\"", ":", p[2]>> \o
             (IF Tail(ps) = <<>> THEN <<>> ELSE <<",">>) \o rest

JSONstringify(obj) == <<"{">> \o StringifyPairs(obj) \o <<"}">>

UpstreamBase ==
    <<"https://", "generativelanguage.googleapis.com", "/v1beta/models/">>

\* targetUrl with the inbound path's '/' kept between model and endpoint
TargetUrl_SlashSep(modelId, apiEndpoint, apiKey) ==
    UpstreamBase \o modelId \o <<"/">> \o apiEndpoint \o <<"?key=">> \o apiKey

\* the template literal of targetUrl
TargetUrl(modelId, apiEndpoint, apiKey) ==
    UpstreamBase \o modelId \o <<":">> \o apiEndpoint \o <<"?key=">> \o apiKey

\* GEMINI_API_KEY === undefined: an empty key passes
MissingKey_UndefinedOnly(apiKey) == apiKey = Undefined

\* !GEMINI_API_KEY
MissingKey(apiKey) == apiKey = Undefined \/ apiKey = <<>>

\* geminiResponse.ok
IsOk(status) == status >= 200 /\ status < 300

\* the i-th chunk (a Buffer) the upstream body produces
Chunk(i) ==
    CASE i = 1 -> <<65, 239>>
      [] i = 2 -> <<191, 189, 255>>
      [] OTHER -> <<64 + i>>

\* the bytes of the first n chunks of the upstream body
RECURSIVE UpBody(_)
UpBody(n) == IF n = 0 THEN <<>> ELSE UpBody(n - 1) \o Chunk(n)

IsCont(b) == b >= 128 /\ b <= 191

\* Buffer.toString('utf8') as used by geminiResponse.text(): ASCII bytes,
\* three-byte sequences with lead 0xEF, and U+FFFD for every ill-formed
\* maximal subpart
RECURSIVE Utf8Decode(_)
Utf8Decode(bs) ==
    IF bs = <<>> THEN <<>>
    ELSE LET b == bs[1]
             n == Len(bs)
         IN  IF b < 128 THEN <<b>> \o Utf8Decode(Tail(bs))
             ELSE IF b = 239 /\ n >= 2 /\ IsCont(bs[2])
                  THEN IF n >= 3 /\ IsCont(bs[3])
                       THEN <<15 * 4096 + (bs[2] % 64) * 64 + (bs[3] % 64)>>
                            \o Utf8Decode(SubSeq(bs, 4, n))
                       ELSE <<65533>> \o Utf8Decode(SubSeq(bs, 3, n))
                  ELSE <<65533>> \o Utf8Decode(Tail(bs))

\* Buffer.from(string, 'utf8') as used by res.send(string)
RECURSIVE Utf8Encode(_)
Utf8Encode(cps) ==
    IF cps = <<>> THEN <<>>
    ELSE LET c == cps[1]
         IN  (IF c < 128 THEN <<c>>
              ELSE <<224 + (c \div 4096), 128 + ((c \div 64) % 64),
                     128 + (c % 64)>>)
             \o Utf8Encode(Tail(cps))

\* error.message when fetch() rejects: node-fetch builds it as
\* `request to ${request.url} failed, reason: ${err.message}`
FetchErrorMessage(url, reason) ==
    <<"request to ">> \o url \o <<" failed, reason: ">> \o reason

\* error.message when text() rejects: node-fetch builds it as
\* `Invalid response body while trying to fetch ${this.url}: ${err.message}`
BodyErrorMessage(url, reason) ==
    <<"Invalid response body while trying to fetch ">> \o url \o <<": ">>
    \o reason

\* ---------------------------------------------------------------- state
VARIABLES
    GEMINI_API_KEY,  \* the credential read at startup
    stage,           \* position of each request's handler
    calls,           \* number of fetch() calls made for the request
    outbound,        \* the fetch() call in flight (params, url, body) or Absent
    geminiResponse,  \* status and headers of the upstream response or Absent
    upCount,         \* chunks the upstream body has produced so far
    delivered,       \* chunks the body stream has handed to its consumer
    upEnded,         \* the upstream body has produced its last chunk
    resStatus,       \* res.statusCode
    resHeaders,      \* Content-Type and Transfer-Encoding set on res
    resJson,         \* the object given to res.json, or Absent
    resBody,         \* bytes written to res by send or pipe
    resEnded         \* res has been ended

vars == <<GEMINI_API_KEY, stage, calls, outbound, geminiResponse,
          upCount, delivered, upEnded, resStatus, resHeaders, resJson,
          resBody, resEnded>>

upVars == <<upCount, delivered, upEnded>>
resVars == <<resStatus, resHeaders, resJson, resBody, resEnded>>

NoHeaders == [ctype |-> None, te |-> None]

Init ==
    /\ GEMINI_API_KEY \in ApiKeys
    /\ stage = [r \in Reqs |-> "idle"]
    /\ calls = [r \in Reqs |-> 0]
    /\ outbound = [r \in Reqs |-> Absent]
    /\ geminiResponse = [r \in Reqs |-> Absent]
    /\ upCount = [r \in Reqs |-> 0]
    /\ delivered = [r \in Reqs |-> 0]
    /\ upEnded = [r \in Reqs |-> FALSE]
    /\ resStatus = [r \in Reqs |-> 200]
    /\ resHeaders = [r \in Reqs |-> NoHeaders]
    /\ resJson = [r \in Reqs |-> Absent]
    /\ resBody = [r \in Reqs |-> <<>>]
    /\ resEnded = [r \in Reqs |-> FALSE]

\* -------------------------------------------------------------- helpers

\* res.send of a string adds the charset to the Content-Type
SetCharset(type) == type \o "; charset=utf-8"

\* res.status(code).json(obj): status, Content-Type (kept when one is already
\* set), body, end
ResJson(r, code, obj) ==
    /\ resStatus' = [resStatus EXCEPT ![r] = code]
    /\ resHeaders' = [resHeaders EXCEPT ![r].ctype =
          SetCharset(IF @ = None THEN "application/json" ELSE @)]
    /\ resJson' = [resJson EXCEPT ![r] = obj]
    /\ resEnded' = [resEnded EXCEPT ![r] = TRUE]
    /\ UNCHANGED resBody

\* the error text sent inside an envelope of the proxy's own
SendBody_Wrapped(errorText) ==
    Utf8Encode(<<123>> \o errorText \o <<125>>)

\* the body res.send(errorText) writes for the upstream's error text
SendBody(errorText) == Utf8Encode(errorText)

\* a pipe that hands the chunks over as decoded strings
PipeWrite_AsText(body, chunk) == body \o Utf8Encode(Utf8Decode(chunk))

\* what one 'data' event of the piped body appends to the client's bytes
PipeWrite(body, chunk) == body \o chunk

\* a relay that collects the body and writes only once it is complete
PipeReady_WhenEnded(r) ==
    stage[r] = "piping" /\ delivered[r] < upCount[r] /\ upEnded[r]

\* the piped body has a chunk to hand over
PipeReady(r) == stage[r] = "piping" /\ delivered[r] < upCount[r]

\* the catch block's response
CatchStatus == 500

\* a catch body that carries the cause only
CatchBody_NoError(message) == [details |-> message]

\* the object the catch block gives to res.json
CatchBody(message) ==
    [error |-> <<"Failed to proxy request to Gemini API.">>, details |-> message]

\* --------------------------------------------------------------- actions

\* The route handler from its entry to its first await: the key check, the
\* URL and the call of fetch.
HandleRequest(r, in) ==
    /\ stage[r] = "idle"
    /\ IF MissingKey(GEMINI_API_KEY)
       THEN /\ ResJson(r, 500,
                  [error |-> <<"Server configuration error: Gemini API key missing.">>])
            /\ stage' = [stage EXCEPT ![r] = "done"]
            /\ UNCHANGED <<calls, outbound>>
       ELSE /\ calls' = [calls EXCEPT ![r] = @ + 1]
            /\ outbound' = [outbound EXCEPT ![r] =
                              [modelId |-> in.modelId,
                               apiEndpoint |-> in.apiEndpoint,
                               url |-> TargetUrl(in.modelId, in.apiEndpoint, GEMINI_API_KEY),
                               method |-> "POST",
                               ctype |-> "application/json",
                               body |-> JSONstringify(in.body)]]
            /\ stage' = [stage EXCEPT ![r] = "fetching"]
            /\ UNCHANGED resVars
    /\ UNCHANGED <<GEMINI_API_KEY, geminiResponse, upVars>>

\* fetch() rejects with a retry of the call in the catch block
FetchReject_Retry(r, reason) ==
    /\ stage[r] = "fetching"
    /\ calls[r] < 3
    /\ calls' = [calls EXCEPT ![r] = @ + 1]
    /\ UNCHANGED <<GEMINI_API_KEY, stage, outbound, geminiResponse,
                   upVars, resVars>>

\* fetch() rejects (no upstream response): the catch block answers
FetchReject(r, reason) ==
    /\ stage[r] = "fetching"
    /\ ResJson(r, CatchStatus,
               CatchBody(FetchErrorMessage(outbound[r].url, reason)))
    /\ stage' = [stage EXCEPT ![r] = "done"]
    /\ outbound' = [outbound EXCEPT ![r] = Absent]
    /\ UNCHANGED <<GEMINI_API_KEY, calls, geminiResponse, upVars>>

\* fetch() resolves: the headers are copied, then either text() is awaited
\* (non-2xx) or the body is piped into res
FetchResolve(r, resp) ==
    /\ stage[r] = "fetching"
    /\ geminiResponse' = [geminiResponse EXCEPT ![r] = resp]
    /\ resHeaders' = [resHeaders EXCEPT ![r] =
          [ctype |-> IF resp.ctype = None THEN "application/json" ELSE resp.ctype,
           te |-> resp.te]]
    /\ IF IsOk(resp.status)
       THEN /\ stage' = [stage EXCEPT ![r] = "piping"]
            /\ outbound' = [outbound EXCEPT ![r] = Absent]
       ELSE /\ stage' = [stage EXCEPT ![r] = "readingText"]
            /\ UNCHANGED outbound
    /\ UNCHANGED <<GEMINI_API_KEY, calls, upVars,
                   resStatus, resJson, resBody, resEnded>>

\* text() resolves with the whole error body (its first n chunks were all the
\* upstream sent): status and text passed through
TextResolve(r, n) ==
    /\ stage[r] = "readingText"
    /\ upCount' = [upCount EXCEPT ![r] = n]
    /\ delivered' = [delivered EXCEPT ![r] = n]
    /\ upEnded' = [upEnded EXCEPT ![r] = TRUE]
    /\ resStatus' = [resStatus EXCEPT ![r] = geminiResponse[r].status]
    /\ resBody' = [resBody EXCEPT ![r] = SendBody(Utf8Decode(UpBody(n)))]
    /\ resEnded' = [resEnded EXCEPT ![r] = TRUE]
    /\ stage' = [stage EXCEPT ![r] = "done"]
    /\ resHeaders' = [resHeaders EXCEPT ![r].ctype = SetCharset(@)]
    /\ outbound' = [outbound EXCEPT ![r] = Absent]
    /\ UNCHANGED <<GEMINI_API_KEY, calls, geminiResponse, resJson>>

\* text() rejects (the error body fails before its end): the catch block answers
TextReject(r, reason) ==
    /\ stage[r] = "readingText"
    /\ ResJson(r, CatchStatus,
               CatchBody(BodyErrorMessage(outbound[r].url, reason)))
    /\ stage' = [stage EXCEPT ![r] = "done"]
    /\ outbound' = [outbound EXCEPT ![r] = Absent]
    /\ UNCHANGED <<GEMINI_API_KEY, calls, geminiResponse, upVars>>

\* the upstream produces the next chunk of the body being piped
UpstreamChunk(r) ==
    /\ stage[r] = "piping"
    /\ ~upEnded[r]
    /\ upCount[r] < MaxChunks
    /\ upCount' = [upCount EXCEPT ![r] = @ + 1]
    /\ UNCHANGED <<GEMINI_API_KEY, stage, calls, outbound, geminiResponse,
                   delivered, upEnded, resVars>>

\* the upstream finishes the body being piped
UpstreamEnd(r) ==
    /\ stage[r] = "piping"
    /\ ~upEnded[r]
    /\ upEnded' = [upEnded EXCEPT ![r] = TRUE]
    /\ UNCHANGED <<GEMINI_API_KEY, stage, calls, outbound, geminiResponse,
                   upCount, delivered, resVars>>

\* pipe: one 'data' event of the body is written to res
PipeData(r) ==
    /\ PipeReady(r)
    /\ delivered' = [delivered EXCEPT ![r] = @ + 1]
    /\ resBody' = [resBody EXCEPT ![r] = PipeWrite(@, Chunk(delivered[r] + 1))]
    /\ UNCHANGED <<GEMINI_API_KEY, stage, calls, outbound, geminiResponse,
                   upCount, upEnded, resStatus, resHeaders, resJson, resEnded>>

\* pipe: the body's 'end' event ends res
PipeEnd(r) ==
    /\ stage[r] = "piping"
    /\ upEnded[r]
    /\ delivered[r] = upCount[r]
    /\ resEnded' = [resEnded EXCEPT ![r] = TRUE]
    /\ stage' = [stage EXCEPT ![r] = "done"]
    /\ UNCHANGED <<GEMINI_API_KEY, calls, outbound, geminiResponse, upVars,
                   resStatus, resHeaders, resJson, resBody>>

\* the body's 'error' event while piping: the listener logs and returns;
\* pipe() leaves res as it is
BodyError(r) ==
    /\ stage[r] = "piping"
    /\ ~upEnded[r]
    /\ stage' = [stage EXCEPT ![r] = "streamFailed"]
    /\ UNCHANGED <<GEMINI_API_KEY, calls, outbound, geminiResponse, upVars,
                   resVars>>

Next ==
    \/ \E r \in Reqs, in \in Inputs : HandleRequest(r, in)
    \/ \E r \in Reqs, reason \in Reasons : FetchReject(r, reason)
    \/ \E r \in Reqs, resp \in Responses : FetchResolve(r, resp)
    \/ \E r \in Reqs : UpstreamChunk(r)
    \/ \E r \in Reqs : UpstreamEnd(r)
    \/ \E r \in Reqs, n \in 0..MaxChunks : TextResolve(r, n)
    \/ \E r \in Reqs, reason \in Reasons : TextReject(r, reason)
    \/ \E r \in Reqs : PipeData(r)
    \/ \E r \in Reqs : PipeEnd(r)
    \/ \E r \in Reqs : BodyError(r)

Spec == Init /\ [][Next]_vars

\* the event loop runs every callback that is ready; the upstream and the
\* clients are under no obligation
Relay(r) ==
    \/ PipeData(r)
    \/ PipeEnd(r)

FairSpec == Spec /\ \A r \in Reqs : WF_vars(Relay(r))


\* ================================================================ claims

IsPrefix(a, b) == Len(a) <= Len(b) /\ SubSeq(b, 1, Len(a)) = a

\* text t has k as a contiguous part
Contains(t, k) ==
    \E i \in 1..(Len(t) - Len(k) + 1) : SubSeq(t, i, i + Len(k) - 1) = k

KeyConfigured == GEMINI_API_KEY # Undefined /\ GEMINI_API_KEY # <<>>

NonOk(r) ==
    /\ geminiResponse[r] # Absent
    /\ (geminiResponse[r].status < 200 \/ geminiResponse[r].status > 299)

Success(r) ==
    /\ geminiResponse[r] # Absent
    /\ geminiResponse[r].status >= 200
    /\ geminiResponse[r].status <= 299

JsonError(r) == resJson[r] # Absent /\ "error" \in DOMAIN resJson[r]

\* C1: while the credential is unset or empty, every handled request is
\* answered with status 500 and a JSON error body, and no call to the
\* upstream is ever made for it.
C1_NoCallWithoutKey ==
    ~KeyConfigured =>
        \A r \in Reqs :
            /\ calls[r] = 0
            /\ outbound[r] = Absent
            /\ stage[r] \in {"idle", "done"}
            /\ stage[r] = "done" =>
                  /\ resStatus[r] = 500
                  /\ JsonError(r)
                  /\ resEnded[r]

C1_Witness ==
    /\ GEMINI_API_KEY = <<>>
    /\ \E r \in Reqs : stage[r] = "done" /\ resStatus[r] = 500 /\ calls[r] = 0

\* C2: the URL of the outbound request is exactly
\* https://{host}/v1beta/models/{modelId}:{apiEndpoint}?key={credential}, and
\* two outbound requests with the same three values have the same URL
\* whatever their bodies and whichever was issued first.
C2_UrlShape ==
    /\ \A r \in Reqs :
          outbound[r] # Absent =>
             LET u == outbound[r].url
                 m == outbound[r].modelId
                 e == outbound[r].apiEndpoint
                 k == GEMINI_API_KEY
                 a == 3 + Len(m)
                 b == a + 1 + Len(e)
             IN  /\ KeyConfigured
                 /\ Len(u) = b + 1 + Len(k)
                 /\ SubSeq(u, 1, 3) =
                       <<"https://", "generativelanguage.googleapis.com",
                         "/v1beta/models/">>
                 /\ SubSeq(u, 4, a) = m
                 /\ u[a + 1] = ":"
                 /\ SubSeq(u, a + 2, b) = e
                 /\ u[b + 1] = "?key="
                 /\ SubSeq(u, b + 2, Len(u)) = k
    /\ \A r1, r2 \in Reqs :
          (/\ outbound[r1] # Absent
           /\ outbound[r2] # Absent
           /\ outbound[r1].modelId = outbound[r2].modelId
           /\ outbound[r1].apiEndpoint = outbound[r2].apiEndpoint)
          => outbound[r1].url = outbound[r2].url

C2_Witness ==
    \E r1, r2 \in Reqs :
        /\ stage[r1] = "fetching"
        /\ stage[r2] = "readingText"
        /\ outbound[r1].modelId = outbound[r2].modelId
        /\ outbound[r1].apiEndpoint = outbound[r2].apiEndpoint
        /\ outbound[r1].body # outbound[r2].body
        /\ outbound[r1].url = outbound[r2].url

\* C3 (as claimed): for every request whose upstream response has a status
\* outside 2xx, the client receives exactly the upstream's status and the
\* upstream's body text, not wrapped in JSON.
C3_Claim ==
    \A r \in Reqs :
        (NonOk(r) /\ resEnded[r]) =>
            /\ resStatus[r] = geminiResponse[r].status
            /\ resJson[r] = Absent
            /\ Utf8Decode(resBody[r]) = Utf8Decode(UpBody(upCount[r]))

\* C3 (amended): for every request whose upstream response has a status
\* outside 2xx and whose error body is read to its end, the client receives
\* exactly the upstream's status and body text, not wrapped in JSON; when
\* reading the error body fails, the client receives 500 and the JSON error
\* envelope of the catch block.
C3_PassThrough ==
    \A r \in Reqs :
        (NonOk(r) /\ resEnded[r]) =>
            IF upEnded[r]
            THEN /\ resStatus[r] = geminiResponse[r].status
                 /\ resJson[r] = Absent
                 /\ Utf8Decode(resBody[r]) = Utf8Decode(UpBody(upCount[r]))
            ELSE /\ resStatus[r] = 500
                 /\ JsonError(r)
                 /\ resBody[r] = <<>>

C3_Witness ==
    \E r \in Reqs :
        /\ NonOk(r)
        /\ resEnded[r]
        /\ upEnded[r]
        /\ upCount[r] = 2
        /\ resStatus[r] = 429
        /\ Utf8Decode(resBody[r]) = <<65, 65533, 65533>>

\* C4: for every request whose upstream response has a status in 200..299,
\* the status the client receives equals the upstream's status.
C4_Claim ==
    \A r \in Reqs :
        Success(r) => resStatus[r] = geminiResponse[r].status

\* C5: on the success path the bytes written to the client are always a
\* prefix of the bytes the upstream has produced, and once the upstream
\* stream has ended normally (its 'end' was handled) the two are equal.
C5_ByteIdentical ==
    \A r \in Reqs :
        Success(r) =>
            /\ resJson[r] = Absent
            /\ IsPrefix(resBody[r], UpBody(upCount[r]))
            /\ stage[r] = "done" => resBody[r] = UpBody(upCount[r])

C5_Witness ==
    \E r \in Reqs :
        /\ Success(r)
        /\ stage[r] = "done"
        /\ upCount[r] = 2
        /\ resBody[r] = <<65, 239, 191, 189, 255>>

\* C6: if the upstream call fails before any upstream response is received,
\* the client receives 500 and a JSON body with an error field, and no byte
\* of an upstream body is ever written to the client for that request.
C6_TransportError ==
    \A r \in Reqs :
        geminiResponse[r] = Absent =>
            /\ resBody[r] = <<>>
            /\ (calls[r] > 0 /\ stage[r] # "fetching") =>
                  /\ stage[r] = "done"
                  /\ resStatus[r] = 500
                  /\ JsonError(r)
                  /\ resEnded[r]

C6_Witness ==
    \E r \in Reqs :
        /\ geminiResponse[r] = Absent
        /\ calls[r] = 1
        /\ stage[r] = "done"
        /\ resStatus[r] = 500
        /\ JsonError(r)

\* C7: on the success path the relay never waits for the end of the upstream
\* body: whenever the relay has nothing it can write, every chunk the
\* upstream has produced so far is already written to the client, ended or
\* not.  Hence for an upstream that emits chunk 2 later than chunk 1 (after
\* the relay has had its turn), chunk 1 is at the client before chunk 2 is
\* produced.
C7_NoBuffering ==
    \A r \in Reqs :
        (stage[r] = "piping" /\ ~ENABLED PipeData(r)) =>
            resBody[r] = UpBody(upCount[r])

C7_Witness ==
    \E r \in Reqs :
        /\ stage[r] = "piping"
        /\ ~upEnded[r]
        /\ upCount[r] = 1
        /\ upCount[r] < MaxChunks
        /\ resBody[r] = Chunk(1)

\* C8: if the upstream body stream errors partway through a successful
\* response, the client response eventually reaches the ended state.
C8_Claim ==
    \A r \in Reqs : (stage[r] = "streamFailed") ~> resEnded[r]

\* C9: each inbound request causes at most one outbound request, exactly one
\* when the credential is configured: no failure outcome triggers a second
\* upstream call.
C9_OneCall ==
    \A r \in Reqs :
        /\ calls[r] <= 1
        /\ stage[r] = "idle" => calls[r] = 0
        /\ (KeyConfigured /\ stage[r] # "idle") => calls[r] = 1

C9_Witness ==
    \E r1, r2 \in Reqs :
        /\ stage[r1] = "streamFailed"
        /\ calls[r1] = 1
        /\ stage[r2] = "done"
        /\ geminiResponse[r2] = Absent
        /\ calls[r2] = 1

\* C10: nothing the proxy itself sends to the client (status, headers, JSON
\* error bodies) contains the credential.
C10_Claim ==
    KeyConfigured =>
        \A r \in Reqs :
            resJson[r] # Absent =>
                \A f \in DOMAIN resJson[r] :
                    ~Contains(resJson[r][f], GEMINI_API_KEY)

====
